---- MODULE Spec2Model ----
(***************************************************************************)
(* Model of the water-level dashboard's logic layer:                       *)
(*   src/src/lib/api.ts            transformApiData, searchWaterBodies     *)
(*   src/src/hooks/useWaterBodies.ts                                       *)
(*                                                                         *)
(* JavaScript values are encoded as follows.                               *)
(*   - a string that is searched (a name, a query) is a sequence of        *)
(*     one-character strings;                                              *)
(*   - an optional value is a sequence of length 0 (undefined) or 1;       *)
(*   - a number that may be undefined or NaN is a record [kind, val].      *)
(***************************************************************************)
EXTENDS Integers, Sequences, FiniteSets, TLC

VARIABLES
    srchBodies,   \* searchWaterBodies: argument waterBodies
    srchQuery,    \* searchWaterBodies: argument query (optional string)
    srchResult,   \* searchWaterBodies: returned array
    srchPc,       \* "idle" before the call, "done" after it
    xfData,       \* transformApiData: argument data
    xfResult,     \* transformApiData: returned array
    xfPc,         \* "idle" before the call, "done" after it, "threw" on TypeError
    fetchResponse, \* fetchWaterBodies: what the network answers
    fetchResult,   \* fetchWaterBodies: how the returned promise settles
    fetchPc,       \* "idle" before the call, "done" once the promise settled
    searchQuery,          \* useWaterBodies: the argument at the latest render
    waterBodies,          \* useWaterBodies: state
    filteredWaterBodies,  \* useWaterBodies: state
    isLoading,            \* useWaterBodies: state
    isRefreshing,         \* useWaterBodies: state
    error,                \* useWaterBodies: state, None for null
    mounted,              \* the effects of the first render have run
    effectPending,        \* the filter effect of the latest render has not run yet
    attempts,             \* the calls of loadWaterBodies, in the order they started
    requestsIssued,       \* the number of fetch() calls made so far
    lastSettled,          \* the attempt that settled last and how, None before
    locationStatus,        \* Home: state, "loading" | "granted" | "denied"
    homeIsRefreshing,      \* Home: state isRefreshing
    homeSearchQuery,       \* Home: state searchQuery
    debouncedSearchQuery,  \* Home: state
    selectedWaterBody,     \* Home: state, None for null
    activeTab,             \* Home: state
    showDetail,            \* Home: state
    isSidebarOpen,         \* Home: state
    mvVariant,             \* MapView: "pins" (first variant) or "leaflet"
    mvSearchQuery,         \* MapView: prop searchQuery (Leaflet variant)
    mvWaterBodies,         \* MapView: state waterBodies
    mvSelectedWaterBody,   \* MapView: state selectedWaterBody, None for null
    mapZoom,               \* MapView: state
    mvIsLoading,           \* MapView: state isLoading
    mvError,               \* MapView: state error, None for null
    mvMounted,             \* MapView: the effects of the first render have run
    leafletScript,         \* "idle", "loading", "loaded" or "failed"
    mapRef,                \* mapRef.current: None, or Some of the map's zoom
    markers,               \* the markers on the map and the zoom their click
                           \* handler flies to, None without markers
    mvLoads,               \* the calls of loadWaterBodies, in starting order
    mvLastSettled          \* the load that settled last, None before

vars ==
    <<srchBodies, srchQuery, srchResult, srchPc, xfData, xfResult, xfPc,
      fetchResponse, fetchResult, fetchPc,
      searchQuery, waterBodies, filteredWaterBodies, isLoading, isRefreshing,
      error, mounted, effectPending, attempts, requestsIssued, lastSettled,
      locationStatus, homeIsRefreshing, homeSearchQuery, debouncedSearchQuery,
      selectedWaterBody, activeTab, showDetail, isSidebarOpen,
      mvVariant, mvSearchQuery, mvWaterBodies, mvSelectedWaterBody, mapZoom,
      mvIsLoading, mvError, mvMounted, leafletScript, mapRef, markers, mvLoads,
      mvLastSettled>>

srchVars == <<srchBodies, srchQuery, srchResult, srchPc>>

xfVars == <<xfData, xfResult, xfPc>>

fetchVars == <<fetchResponse, fetchResult, fetchPc>>

hookVars ==
    <<searchQuery, waterBodies, filteredWaterBodies, isLoading, isRefreshing,
      error, mounted, effectPending, attempts, requestsIssued, lastSettled>>

homeVars ==
    <<locationStatus, homeIsRefreshing, homeSearchQuery, debouncedSearchQuery,
      selectedWaterBody, activeTab, showDetail, isSidebarOpen>>

mapVars ==
    <<mvVariant, mvSearchQuery, mvWaterBodies, mvSelectedWaterBody, mapZoom,
      mvIsLoading, mvError, mvMounted, leafletScript, mapRef, markers, mvLoads,
      mvLastSettled>>

\* The state of the components around the hook.
uiVars == <<homeVars, mapVars>>

(***************************************************************************)
(* Bounds of the model.                                                    *)
(***************************************************************************)
MaxNameLen == 2

MaxQueryLen == 2

MaxBodies == 2

MaxStations == 2

MaxTimeseries == 2

\* The calls of loadWaterBodies in one run of MapView.
MaxMapLoads == 2

\* The calls of loadWaterBodies in one run of the hook.
MaxAttempts == 3

\* The stations in one answer of the network to the hook.
MaxAnswerLen == 1

(***************************************************************************)
(* Generic helpers.                                                        *)
(***************************************************************************)
None == <<>>

Some(x) == <<x>>

SeqsUpTo(S, n) == UNION {[1..k -> S] : k \in 0..n}

(***************************************************************************)
(* Strings.                                                                *)
(***************************************************************************)
Alphabet == {"a", "A", "b"}

\* String.prototype.toLowerCase on one character of the alphabet.
LowerChar(c) ==
    CASE c = "A" -> "a"
      [] c = "C" -> "c"
      [] c = "G" -> "g"
      [] c = "L" -> "l"
      [] c = "Z" -> "z"
      [] OTHER -> c

toLowerCase(s) == [i \in 1..Len(s) |-> LowerChar(s[i])]

\* String.prototype.includes: scan the start positions left to right.
includes(s, t) ==
    \E start \in 0..(Len(s) - Len(t)) :
        \A k \in 1..Len(t) : s[start + k] = t[k]


(***************************************************************************)
(* Numbers that may be undefined or NaN.  Levels are integers; the inputs  *)
(* drawn below are multiples of 5, on which the product with 0.8 is exact  *)
(* both here and in IEEE double arithmetic (10 * 0.8 = 8, 5 * 0.8 = 4).    *)
(***************************************************************************)
Num(n) == [kind |-> "number", val |-> n]

Undefined == [kind |-> "undefined", val |-> 0]

NaN == [kind |-> "NaN", val |-> 0]

\* ToBoolean of a number-or-undefined: 0, NaN and undefined are falsy.
TruthyNum(n) == n.kind = "number" /\ n.val # 0

\* x * 0.8; undefined * 0.8 and NaN * 0.8 are NaN.
Times08(n) == IF n.kind = "number" THEN Num((n.val * 8) \div 10) ELSE NaN

(***************************************************************************)
(* searchWaterBodies (src/src/lib/api.ts).                                 *)
(***************************************************************************)
\* !query : true of an absent query and of the empty string.
NotQuery(query) == query = None \/ query[1] = <<>>

\* A variant that compares the name as written (no toLowerCase on the name).
searchWaterBodies_CaseSensitive(bodies, query) ==
    IF NotQuery(query) THEN bodies
    ELSE LET lowerCaseQuery == toLowerCase(query[1])
         IN  SelectSeq(bodies, LAMBDA waterBody :
                 includes(waterBody.name, lowerCaseQuery))

\* A variant that answers an empty or absent query with no element at all.
searchWaterBodies_EmptyOnNoQuery(bodies, query) ==
    IF NotQuery(query) THEN <<>>
    ELSE LET lowerCaseQuery == toLowerCase(query[1])
         IN  SelectSeq(bodies, LAMBDA waterBody :
                 includes(toLowerCase(waterBody.name), lowerCaseQuery))

searchWaterBodies(bodies, query) ==
    IF NotQuery(query) THEN bodies
    ELSE LET lowerCaseQuery == toLowerCase(query[1])
         IN  SelectSeq(bodies, LAMBDA waterBody :
                 includes(toLowerCase(waterBody.name), lowerCaseQuery))

(***************************************************************************)
(* transformApiData (src/src/lib/api.ts).                                  *)
(*                                                                         *)
(* A raw station (ApiWaterBody) is a record                                *)
(*   [uuid, shortname, longname, latitude, longitude, timeseries]          *)
(* where longname and timeseries are optional; a time-series entry is      *)
(*   [currentMeasurement, gaugeZero], both optional;                       *)
(* a current measurement is [timestamp, value, stateMnwMhw, stateNswHsw]   *)
(* with an optional value and optional flags; a gauge zero is [value].     *)
(***************************************************************************)
\* A variant of the first filter that forgets the test for a missing list.
HasTimeseries_NoNullCheck(station) ==
    station.timeseries = None \/ Len(station.timeseries[1]) > 0

\* station.timeseries && station.timeseries.length > 0
HasTimeseries(station) ==
    station.timeseries # None /\ Len(station.timeseries[1]) > 0

\* station.timeseries[0] throws a TypeError when timeseries is undefined.
IndexThrows(station) == station.timeseries = None

\* A variant that takes the first entry carrying a current measurement.
FirstTimeseries_WithMeasurement(station) ==
    LET entries == station.timeseries[1]
        measured == SelectSeq(entries, LAMBDA e : e.currentMeasurement # None)
    IN  IF Len(entries) = 0 THEN None
        ELSE IF Len(measured) = 0 THEN Some(entries[1])
        ELSE Some(measured[1])

\* station.timeseries[0]: undefined when the array is empty.
FirstTimeseries(station) ==
    IF Len(station.timeseries[1]) = 0 THEN None
    ELSE Some(station.timeseries[1][1])

\* timeseries?.currentMeasurement
CurrentMeasurementOf(timeseries) ==
    IF timeseries = None THEN None ELSE timeseries[1].currentMeasurement

\* A variant that reads the trend off either flag.
Trend_FromEitherFlag(currentMeasurement) ==
    IF \/ currentMeasurement.stateNswHsw = Some("rising")
       \/ currentMeasurement.stateMnwMhw = Some("rising")
    THEN "rising"
    ELSE IF \/ currentMeasurement.stateNswHsw = Some("falling")
            \/ currentMeasurement.stateMnwMhw = Some("falling")
    THEN "falling"
    ELSE "stable"

\* A variant that also reads a level flag as a direction.
Trend_FromLevelFlags(currentMeasurement) ==
    IF currentMeasurement.stateNswHsw \in {Some("rising"), Some("above")}
    THEN "rising"
    ELSE IF currentMeasurement.stateNswHsw \in {Some("falling"), Some("below")}
    THEN "falling"
    ELSE "stable"

Trend(currentMeasurement) ==
    IF currentMeasurement.stateNswHsw = Some("rising") THEN "rising"
    ELSE IF currentMeasurement.stateNswHsw = Some("falling") THEN "falling"
    ELSE "stable"

\* A variant that tests "below" before "above".
Status_BelowFirst(currentMeasurement) ==
    IF \/ currentMeasurement.stateMnwMhw = Some("below")
       \/ currentMeasurement.stateNswHsw = Some("below")
    THEN "low"
    ELSE IF \/ currentMeasurement.stateMnwMhw = Some("above")
            \/ currentMeasurement.stateNswHsw = Some("above")
    THEN "high"
    ELSE "normal"

Status(currentMeasurement) ==
    IF \/ currentMeasurement.stateMnwMhw = Some("above")
       \/ currentMeasurement.stateNswHsw = Some("above")
    THEN "high"
    ELSE IF \/ currentMeasurement.stateMnwMhw = Some("below")
            \/ currentMeasurement.stateNswHsw = Some("below")
    THEN "low"
    ELSE "normal"

\* timeseries.gaugeZero?.value
GaugeZeroValue(timeseries) ==
    IF timeseries.gaugeZero = None THEN Undefined
    ELSE timeseries.gaugeZero[1].value

\* A variant with ?? in place of ||: a gauge zero of 0 is kept.
NormalLevel_Nullish(timeseries, currentMeasurement) ==
    IF GaugeZeroValue(timeseries).kind # "undefined" THEN GaugeZeroValue(timeseries)
    ELSE Times08(currentMeasurement.value)

\* timeseries.gaugeZero?.value || currentMeasurement.value * 0.8
NormalLevel(timeseries, currentMeasurement) ==
    IF TruthyNum(GaugeZeroValue(timeseries)) THEN GaugeZeroValue(timeseries)
    ELSE Times08(currentMeasurement.value)

\* A variant with ?? in place of ||: an empty longname is kept.
Name_Nullish(station) ==
    IF station.longname # None THEN station.longname[1] ELSE station.shortname

\* station.longname || station.shortname
Name(station) ==
    IF station.longname # None /\ station.longname[1] # <<>>
    THEN station.longname[1]
    ELSE station.shortname

\* The callback of .map: None stands for the null it returns.
MapStation(station) ==
    LET timeseries == FirstTimeseries(station)
        currentMeasurement == CurrentMeasurementOf(timeseries)
    IN  IF currentMeasurement = None THEN None
        ELSE Some([id           |-> station.uuid,
                   name         |-> Name(station),
                   currentLevel |-> currentMeasurement[1].value,
                   normalLevel  |-> NormalLevel(timeseries[1], currentMeasurement[1]),
                   trend        |-> Trend(currentMeasurement[1]),
                   status       |-> Status(currentMeasurement[1]),
                   lastUpdated  |-> currentMeasurement[1].timestamp,
                   coordinates  |-> [latitude  |-> station.latitude,
                                     longitude |-> station.longitude]])

\* Whether the call throws: only station.timeseries[0] can.
transformThrows(data) ==
    \E i \in 1..Len(data) : HasTimeseries(data[i]) /\ IndexThrows(data[i])

\* A variant that gives up the batch when one station has no measurement.
transformApiData_AllOrNothing(data) ==
    LET filtered == SelectSeq(data, HasTimeseries)
        mapped   == [i \in 1..Len(filtered) |-> MapStation(filtered[i])]
    IN  IF \E i \in 1..Len(mapped) : mapped[i] = None THEN <<>>
        ELSE [i \in 1..Len(mapped) |-> mapped[i][1]]

\* data.filter(...).map(...).filter(Boolean), for a call that does not throw.
transformApiData(data) ==
    LET filtered == SelectSeq(data, HasTimeseries)
        mapped   == [i \in 1..Len(filtered) |-> MapStation(filtered[i])]
        kept     == SelectSeq(mapped, LAMBDA m : m # None)
    IN  [i \in 1..Len(kept) |-> kept[i][1]]

(***************************************************************************)
(* fetchWaterBodies (src/src/lib/api.ts).                                  *)
(*                                                                         *)
(* What the network answers is [delivered, status, body]: delivered is     *)
(* FALSE when fetch() itself rejects (a transport failure); body is None   *)
(* when response.json() rejects (the body is not JSON) and Some(data)      *)
(* otherwise.  The promise settles as [ok, data, message]: resolved with   *)
(* data, or rejected with an Error carrying message.                       *)
(***************************************************************************)
TransportFailure == [delivered |-> FALSE, status |-> 0, body |-> None]

Resolved(data) == [ok |-> TRUE, data |-> data, message |-> ""]

Rejected(message) == [ok |-> FALSE, data |-> <<>>, message |-> message]

\* A variant that takes every status below 400 for a success.
ResponseOk_Below400(response) == response.status >= 200 /\ response.status <= 399

\* response.ok: the status is in the range 200-299.
ResponseOk(response) == response.status >= 200 /\ response.status <= 299

StatusMessage(response) ==
    "API request failed with status " \o ToString(response.status)

fetchWaterBodies(response) ==
    IF ~response.delivered THEN Rejected("TypeError: Failed to fetch")
    ELSE IF ~ResponseOk(response) THEN Rejected(StatusMessage(response))
    ELSE IF response.body = None
    THEN Rejected("SyntaxError: Unexpected token in JSON")
    ELSE IF transformThrows(response.body[1])
    THEN Rejected("TypeError: Cannot read properties of undefined")
    ELSE Resolved(transformApiData(response.body[1]))

(***************************************************************************)
(* Inputs of searchWaterBodies: arrays of at most MaxBodies water bodies   *)
(* with names of at most MaxNameLen characters, and a query that is absent *)
(* or a string of at most MaxQueryLen characters.  Names are written with  *)
(* an upper-case and a lower-case letter, queries with both cases of the   *)
(* first.                                                                  *)
(***************************************************************************)
NameAlphabet == {"A", "b"}

Names == SeqsUpTo(NameAlphabet, MaxNameLen)

\* A WaterBody as transformApiData builds it; only id and name vary here.
WaterBodyNamed(n, i) ==
    [id           |-> ToString(i),
     name         |-> n,
     currentLevel |-> Num(10),
     normalLevel  |-> Num(8),
     trend        |-> "stable",
     status       |-> "normal",
     lastUpdated  |-> "t1",
     coordinates  |-> [latitude |-> 50, longitude |-> 8]]

Collections ==
    {[i \in 1..Len(ns) |-> WaterBodyNamed(ns[i], i)] : ns \in SeqsUpTo(Names, MaxBodies)}

Queries == {None} \cup {Some(q) : q \in SeqsUpTo(Alphabet, MaxQueryLen)}

(***************************************************************************)
(* Inputs of transformApiData.  DetailStations vary everything the mapping *)
(* of one station reads and are transformed one at a time; BatchStations   *)
(* vary the identifier and the shape of the time-series list and are       *)
(* transformed in arrays of at most MaxStations.                           *)
(***************************************************************************)
Timestamps == {"t1", "t2"}

Values == {Undefined, Num(0), Num(10)}

MnwMhwFlags == {None, Some("above"), Some("below"), Some("rising"), Some("normal")}

NswHswFlags ==
    {None, Some("rising"), Some("falling"), Some("above"), Some("below"), Some("unknown")}

GaugeZeros ==
    {None, Some([value |-> Undefined]), Some([value |-> Num(0)]), Some([value |-> Num(5)])}

LongNames == {None, Some(<<>>), Some(<<"A", "b">>)}

Measurements ==
    [timestamp : Timestamps, value : Values,
     stateMnwMhw : MnwMhwFlags, stateNswHsw : NswHswFlags]

DetailEntries ==
    [currentMeasurement : {None} \cup {Some(m) : m \in Measurements},
     gaugeZero : GaugeZeros]

DetailStations ==
    [uuid : {"u1"}, shortname : {<<"b", "a">>}, longname : LongNames,
     latitude : {50, 51}, longitude : {8},
     timeseries : {Some(<<e>>) : e \in DetailEntries}]

BatchMeasurement ==
    [timestamp |-> "t1", value |-> Num(10),
     stateMnwMhw |-> Some("normal"), stateNswHsw |-> Some("unknown")]

BatchEntries ==
    [currentMeasurement : {None, Some(BatchMeasurement)}, gaugeZero : {None}]

BatchStations ==
    [uuid : {"u1", "u2"}, shortname : {<<"b", "a">>}, longname : {None},
     latitude : {50}, longitude : {8},
     timeseries : {None} \cup {Some(ts) : ts \in SeqsUpTo(BatchEntries, MaxTimeseries)}]

ApiResponses ==
    {<<s>> : s \in DetailStations} \cup SeqsUpTo(BatchStations, MaxStations)

(***************************************************************************)
(* What the network can answer to fetchWaterBodies.                        *)
(***************************************************************************)
Statuses == {200, 299, 300, 404, 500}

Bodies == {None} \cup {Some(data) : data \in ApiResponses}

NetworkAnswers ==
    {TransportFailure} \cup [delivered : {TRUE}, status : Statuses, body : Bodies]

(***************************************************************************)
(* The surroundings of useWaterBodies: the queries the component passes    *)
(* and what the network answers.  StationAb has a long name, StationBa     *)
(* only a short name.                                                      *)
(***************************************************************************)
HookQueries == {<<>>, <<"A", "b">>}

StationAb ==
    [uuid |-> "u1", shortname |-> <<"b", "A">>, longname |-> Some(<<"A", "b">>),
     latitude |-> 50, longitude |-> 8,
     timeseries |-> Some(<<[currentMeasurement |-> Some(BatchMeasurement),
                            gaugeZero |-> None]>>)]

StationBa ==
    [uuid |-> "u2", shortname |-> <<"b", "a">>, longname |-> None,
     latitude |-> 51, longitude |-> 8,
     timeseries |-> Some(<<[currentMeasurement |-> Some(BatchMeasurement),
                            gaugeZero |-> None]>>)]

HookStations == {StationAb, StationBa}

HookAnswers ==
    {TransportFailure} \cup
    [delivered : {TRUE}, status : {200, 500},
     body : {None} \cup {Some(data) : data \in SeqsUpTo(HookStations, MaxAnswerLen)}]

(***************************************************************************)
(* The calls.                                                              *)
(***************************************************************************)
FetchIdle ==
    /\ fetchResponse = TransportFailure
    /\ fetchResult = Rejected("")
    /\ fetchPc = "idle"

\* useWaterBodies after the first render, before its effects: lines 5-11.
HookFirstRender ==
    /\ waterBodies = <<>>
    /\ filteredWaterBodies = <<>>
    /\ isLoading = TRUE
    /\ isRefreshing = FALSE
    /\ error = None
    /\ mounted = FALSE
    /\ effectPending = FALSE
    /\ attempts = <<>>
    /\ requestsIssued = 0
    /\ lastSettled = None

\* The hook is not rendered.
HookIdle ==
    /\ searchQuery = <<>>
    /\ HookFirstRender

\* Home after its first render: home.tsx lines 14-25.
HomeFirstRender ==
    /\ locationStatus = "loading"
    /\ homeIsRefreshing = FALSE
    /\ homeSearchQuery = <<>>
    /\ debouncedSearchQuery = <<>>
    /\ selectedWaterBody = None
    /\ activeTab = "list"
    /\ showDetail = FALSE
    /\ isSidebarOpen = FALSE

\* MapView after its first render: SearchBar.tsx lines 55-62, 342-350.
MapFirstRender ==
    /\ mvWaterBodies = <<>>
    /\ mvSelectedWaterBody = None
    /\ mapZoom = (IF mvVariant = "leaflet" THEN 6 ELSE 12)
    /\ mvIsLoading = TRUE
    /\ mvError = None
    /\ mvMounted = FALSE
    /\ leafletScript = "idle"
    /\ mapRef = None
    /\ markers = None
    /\ mvLoads = <<>>
    /\ mvLastSettled = None

\* MapView is not rendered.
MapIdle ==
    /\ mvVariant = "pins"
    /\ mvSearchQuery = <<>>
    /\ MapFirstRender

SearchIdle ==
    /\ srchBodies = <<>>
    /\ srchQuery = None
    /\ srchResult = <<>>
    /\ srchPc = "idle"

TransformIdle ==
    /\ xfData = <<>>
    /\ xfResult = <<>>
    /\ xfPc = "idle"

InitSearch ==
    /\ HomeFirstRender
    /\ MapIdle
    /\ srchBodies \in Collections
    /\ srchQuery \in Queries
    /\ srchResult = <<>>
    /\ srchPc = "idle"
    /\ TransformIdle
    /\ FetchIdle
    /\ HookIdle

InitTransform ==
    /\ HomeFirstRender
    /\ MapIdle
    /\ xfData \in ApiResponses
    /\ xfResult = <<>>
    /\ xfPc = "idle"
    /\ SearchIdle
    /\ FetchIdle
    /\ HookIdle

InitFetch ==
    /\ HomeFirstRender
    /\ MapIdle
    /\ fetchResponse \in NetworkAnswers
    /\ fetchResult = Rejected("")
    /\ fetchPc = "idle"
    /\ SearchIdle
    /\ TransformIdle
    /\ HookIdle

Init ==
    /\ HomeFirstRender
    /\ MapIdle
    /\ searchQuery \in HookQueries
    /\ HookFirstRender
    /\ SearchIdle
    /\ TransformIdle
    /\ FetchIdle

\* One call of searchWaterBodies(srchBodies, srchQuery).
Search ==
    /\ srchPc = "idle"
    /\ srchResult' = searchWaterBodies(srchBodies, srchQuery)
    /\ srchPc' = "done"
    /\ UNCHANGED <<srchBodies, srchQuery, xfVars, fetchVars, hookVars, uiVars>>

\* One call of transformApiData(xfData).
Transform ==
    /\ xfPc = "idle"
    /\ IF transformThrows(xfData)
       THEN xfPc' = "threw" /\ xfResult' = <<>>
       ELSE xfPc' = "done" /\ xfResult' = transformApiData(xfData)
    /\ UNCHANGED <<xfData, srchVars, fetchVars, hookVars, uiVars>>

\* One call of fetchWaterBodies(), up to the settling of its promise.
Fetch ==
    /\ fetchPc = "idle"
    /\ fetchResult' = fetchWaterBodies(fetchResponse)
    /\ fetchPc' = "done"
    /\ UNCHANGED <<fetchResponse, srchVars, xfVars, hookVars, uiVars>>

(***************************************************************************)
(* useWaterBodies (src/src/hooks/useWaterBodies.ts).  A handler runs to    *)
(* its next await in one step and React commits the state it set in that   *)
(* step; the filter effect of a render runs as a step of its own, before   *)
(* any other handler.                                                      *)
(***************************************************************************)
ErrorMessage == "Failed to load water bodies. Please try again."

Pending == {a \in DOMAIN attempts : attempts[a].state = "pending"}

pureVars == <<srchVars, xfVars, fetchVars>>

\* A variant that starts an attempt without clearing the error slot.
LoadStart_KeepsError(kind) ==
    /\ Len(attempts) < MaxAttempts
    /\ isLoading' = TRUE
    /\ error' = error
    /\ requestsIssued' = requestsIssued + 1
    /\ attempts' = Append(attempts,
           [kind |-> kind, query |-> searchQuery, state |-> "pending"])

\* loadWaterBodies up to its await: lines 15-19.  The closure holds the
\* searchQuery of the render that created it.
LoadStart(kind) ==
    /\ Len(attempts) < MaxAttempts
    /\ isLoading' = TRUE
    /\ error' = None
    /\ requestsIssued' = requestsIssued + 1
    /\ attempts' = Append(attempts,
           [kind |-> kind, query |-> searchQuery, state |-> "pending"])

\* The effects of the first render: lines 37-39 start the initial load; the
\* filter effect of lines 42-46 finds waterBodies empty and does nothing.
Mount ==
    /\ ~mounted
    /\ mounted' = TRUE
    /\ LoadStart("mount")
    /\ UNCHANGED <<searchQuery, waterBodies, filteredWaterBodies, isRefreshing,
                   effectPending, lastSettled, pureVars, uiVars>>

\* handleRefresh up to the await inside loadWaterBodies: lines 30-32.
HandleRefresh ==
    /\ mounted
    /\ ~effectPending
    /\ isRefreshing' = TRUE
    /\ LoadStart("refresh")
    /\ UNCHANGED <<searchQuery, waterBodies, filteredWaterBodies, mounted,
                   effectPending, lastSettled, pureVars, uiVars>>

\* handleRefresh after its await: line 33 runs for a refresh only.
RefreshingAfter(a) ==
    IF attempts[a].kind = "refresh" THEN FALSE ELSE isRefreshing

\* A variant with a sequencing token: only the attempt started last is applied.
FetchResolves_LatestOnly(a) ==
    /\ a \in Pending
    /\ ~effectPending
    /\ \E answer \in HookAnswers :
           LET result == fetchWaterBodies(answer)
           IN  /\ result.ok
               /\ waterBodies' =
                      IF a = Len(attempts) THEN result.data ELSE waterBodies
               /\ filteredWaterBodies' =
                      IF a = Len(attempts)
                      THEN searchWaterBodies(result.data, Some(attempts[a].query))
                      ELSE filteredWaterBodies
               /\ lastSettled' = Some([attempt |-> a, result |-> result])
    /\ isLoading' = FALSE
    /\ isRefreshing' = RefreshingAfter(a)
    /\ effectPending' = TRUE
    /\ attempts' = [attempts EXCEPT ![a].state = "resolved"]
    /\ UNCHANGED <<searchQuery, error, mounted, requestsIssued, pureVars, uiVars>>

\* A variant that patches the collection: the new stations are appended.
FetchResolves_Merges(a) ==
    /\ a \in Pending
    /\ ~effectPending
    /\ \E answer \in HookAnswers :
           LET result == fetchWaterBodies(answer)
           IN  /\ result.ok
               /\ waterBodies' = waterBodies \o result.data
               /\ filteredWaterBodies' =
                      searchWaterBodies(result.data, Some(attempts[a].query))
               /\ lastSettled' = Some([attempt |-> a, result |-> result])
    /\ isLoading' = FALSE
    /\ isRefreshing' = RefreshingAfter(a)
    /\ effectPending' = TRUE
    /\ attempts' = [attempts EXCEPT ![a].state = "resolved"]
    /\ UNCHANGED <<searchQuery, error, mounted, requestsIssued, pureVars, uiVars>>

\* A variant whose filter effect does not depend on waterBodies: no effect
\* is scheduled when a fetch resolves.
FetchResolves_NoEffect(a) ==
    /\ a \in Pending
    /\ ~effectPending
    /\ \E answer \in HookAnswers :
           LET result == fetchWaterBodies(answer)
           IN  /\ result.ok
               /\ waterBodies' = result.data
               /\ filteredWaterBodies' =
                      searchWaterBodies(result.data, Some(attempts[a].query))
               /\ lastSettled' = Some([attempt |-> a, result |-> result])
    /\ isLoading' = FALSE
    /\ isRefreshing' = RefreshingAfter(a)
    /\ attempts' = [attempts EXCEPT ![a].state = "resolved"]
    /\ UNCHANGED <<searchQuery, error, mounted, effectPending, requestsIssued,
                   pureVars, uiVars>>

\* The fetch of attempt a resolves: lines 20-21, 26 and 33.
FetchResolves(a) ==
    /\ a \in Pending
    /\ ~effectPending
    /\ \E answer \in HookAnswers :
           LET result == fetchWaterBodies(answer)
           IN  /\ result.ok
               /\ waterBodies' = result.data
               /\ filteredWaterBodies' =
                      searchWaterBodies(result.data, Some(attempts[a].query))
               /\ lastSettled' = Some([attempt |-> a, result |-> result])
    /\ isLoading' = FALSE
    /\ isRefreshing' = RefreshingAfter(a)
    /\ effectPending' = TRUE
    /\ attempts' = [attempts EXCEPT ![a].state = "resolved"]
    /\ UNCHANGED <<searchQuery, error, mounted, requestsIssued, pureVars, uiVars>>

\* A variant that clears the collection when the fetch fails.
FetchRejects_ClearsData(a) ==
    /\ a \in Pending
    /\ ~effectPending
    /\ \E answer \in HookAnswers :
           LET result == fetchWaterBodies(answer)
           IN  /\ ~result.ok
               /\ lastSettled' = Some([attempt |-> a, result |-> result])
    /\ error' = Some(ErrorMessage)
    /\ isLoading' = FALSE
    /\ isRefreshing' = RefreshingAfter(a)
    /\ waterBodies' = <<>>
    /\ filteredWaterBodies' = <<>>
    /\ effectPending' = TRUE
    /\ attempts' = [attempts EXCEPT ![a].state = "rejected"]
    /\ UNCHANGED <<searchQuery, mounted, requestsIssued, pureVars, uiVars>>

\* A variant that shows the message of the error it caught.
FetchRejects_ShowsCause(a) ==
    /\ a \in Pending
    /\ ~effectPending
    /\ \E answer \in HookAnswers :
           LET result == fetchWaterBodies(answer)
           IN  /\ ~result.ok
               /\ lastSettled' = Some([attempt |-> a, result |-> result])
               /\ error' = Some(result.message)
    /\ isLoading' = FALSE
    /\ isRefreshing' = RefreshingAfter(a)
    /\ attempts' = [attempts EXCEPT ![a].state = "rejected"]
    /\ UNCHANGED <<searchQuery, waterBodies, filteredWaterBodies, mounted,
                   effectPending, requestsIssued, pureVars, uiVars>>

\* A variant that fetches once more after a failure.
FetchRejects_Retries(a) ==
    /\ a \in Pending
    /\ ~effectPending
    /\ requestsIssued < MaxAttempts
    /\ \E answer \in HookAnswers :
           LET result == fetchWaterBodies(answer)
           IN  /\ ~result.ok
               /\ lastSettled' = Some([attempt |-> a, result |-> result])
    /\ requestsIssued' = requestsIssued + 1
    /\ UNCHANGED <<searchQuery, waterBodies, filteredWaterBodies, isLoading,
                   isRefreshing, error, mounted, effectPending, attempts, pureVars, uiVars>>

\* A variant without the finally block and without line 33: a failed attempt
\* leaves the two flags as they were.
FetchRejects_FlagsStuck(a) ==
    /\ a \in Pending
    /\ ~effectPending
    /\ \E answer \in HookAnswers :
           LET result == fetchWaterBodies(answer)
           IN  /\ ~result.ok
               /\ lastSettled' = Some([attempt |-> a, result |-> result])
    /\ error' = Some(ErrorMessage)
    /\ attempts' = [attempts EXCEPT ![a].state = "rejected"]
    /\ UNCHANGED <<searchQuery, waterBodies, filteredWaterBodies, isLoading,
                   isRefreshing, mounted, effectPending, requestsIssued, pureVars, uiVars>>

\* The fetch of attempt a rejects: lines 22-24, 26 and 33.
FetchRejects(a) ==
    /\ a \in Pending
    /\ ~effectPending
    /\ \E answer \in HookAnswers :
           LET result == fetchWaterBodies(answer)
           IN  /\ ~result.ok
               /\ lastSettled' = Some([attempt |-> a, result |-> result])
    /\ error' = Some(ErrorMessage)
    /\ isLoading' = FALSE
    /\ isRefreshing' = RefreshingAfter(a)
    /\ attempts' = [attempts EXCEPT ![a].state = "rejected"]
    /\ UNCHANGED <<searchQuery, waterBodies, filteredWaterBodies, mounted,
                   effectPending, requestsIssued, pureVars, uiVars>>

\* The component renders the hook with another searchQuery.
SetQuery(q) ==
    /\ mounted
    /\ ~effectPending
    /\ q # searchQuery
    /\ searchQuery' = q
    /\ effectPending' = TRUE
    /\ UNCHANGED <<waterBodies, filteredWaterBodies, isLoading, isRefreshing,
                   error, mounted, attempts, requestsIssued, lastSettled, pureVars, uiVars>>

\* A variant whose search filters the collection in place.
RunFilterEffect_InPlace ==
    /\ effectPending
    /\ effectPending' = FALSE
    /\ filteredWaterBodies' =
           IF Len(waterBodies) > 0
           THEN searchWaterBodies(waterBodies, Some(searchQuery))
           ELSE filteredWaterBodies
    /\ waterBodies' = filteredWaterBodies'
    /\ UNCHANGED <<searchQuery, isLoading, isRefreshing, error,
                   mounted, attempts, requestsIssued, lastSettled, pureVars, uiVars>>

\* The filter effect, after a render in which searchQuery or waterBodies
\* changed: lines 42-46.
RunFilterEffect ==
    /\ effectPending
    /\ effectPending' = FALSE
    /\ filteredWaterBodies' =
           IF Len(waterBodies) > 0
           THEN searchWaterBodies(waterBodies, Some(searchQuery))
           ELSE filteredWaterBodies
    /\ UNCHANGED <<searchQuery, waterBodies, isLoading, isRefreshing, error,
                   mounted, attempts, requestsIssued, lastSettled, pureVars, uiVars>>

(***************************************************************************)
(* Home (src/src/components/home.tsx).  The detail view replaces the whole *)
(* page while showDetail and selectedWaterBody are both set (lines 72-73): *)
(* the handlers of the page can run only while it is rendered, and onBack  *)
(* only while the detail view is.                                          *)
(***************************************************************************)
HomeQueries == {<<>>, <<"A">>}

HomeWaterBodies == {WaterBodyNamed(<<"A">>, 1), WaterBodyNamed(<<"b">>, 2)}

HomeTabs == {"list", "map"}

\* showDetail && selectedWaterBody: line 73.
DetailShown == showDetail /\ selectedWaterBody # None

\* The timer of lines 28-32 fires.
LocationTimer ==
    /\ locationStatus = "loading"
    /\ locationStatus' = "granted"
    /\ UNCHANGED <<homeIsRefreshing, homeSearchQuery, debouncedSearchQuery,
                   selectedWaterBody, activeTab, showDetail, isSidebarOpen,
                   pureVars, hookVars, mapVars>>

\* handleRefresh of Home, lines 47-52, up to its timer; the button of lines
\* 165-173 is disabled while isRefreshing.
HomeRefresh ==
    /\ ~DetailShown
    /\ ~homeIsRefreshing
    /\ homeIsRefreshing' = TRUE
    /\ UNCHANGED <<locationStatus, homeSearchQuery, debouncedSearchQuery,
                   selectedWaterBody, activeTab, showDetail, isSidebarOpen,
                   pureVars, hookVars, mapVars>>

\* The timer of lines 49-51 fires.
HomeRefreshTimer ==
    /\ homeIsRefreshing
    /\ homeIsRefreshing' = FALSE
    /\ UNCHANGED <<locationStatus, homeSearchQuery, debouncedSearchQuery,
                   selectedWaterBody, activeTab, showDetail, isSidebarOpen,
                   pureVars, hookVars, mapVars>>

\* Lines 54-58; reached from WaterBodyList and MapView, lines 261-275.
handleSelectWaterBody(waterBody) ==
    /\ ~DetailShown
    /\ locationStatus # "denied"
    /\ selectedWaterBody' = Some(waterBody)
    /\ showDetail' = TRUE
    /\ isSidebarOpen' = FALSE
    /\ UNCHANGED <<locationStatus, homeIsRefreshing, homeSearchQuery,
                   debouncedSearchQuery, activeTab, pureVars, hookVars, mapVars>>

\* Lines 60-62.
handleSearchChange(q) ==
    /\ ~DetailShown
    /\ q # homeSearchQuery
    /\ homeSearchQuery' = q
    /\ UNCHANGED <<locationStatus, homeIsRefreshing, debouncedSearchQuery,
                   selectedWaterBody, activeTab, showDetail, isSidebarOpen,
                   pureVars, hookVars, mapVars>>

\* The debounced callback of lines 35-45 runs: the effect of line 44 hands
\* every new searchQuery to it, so it runs with the latest one.
DebouncedCallback ==
    /\ debouncedSearchQuery # homeSearchQuery
    /\ debouncedSearchQuery' = homeSearchQuery
    /\ UNCHANGED <<locationStatus, homeIsRefreshing, homeSearchQuery,
                   selectedWaterBody, activeTab, showDetail, isSidebarOpen,
                   pureVars, hookVars, mapVars>>

\* A variant that forgets the selection when it leaves the detail view.
handleBackFromDetail_ClearsSelection ==
    /\ DetailShown
    /\ showDetail' = FALSE
    /\ selectedWaterBody' = None
    /\ UNCHANGED <<locationStatus, homeIsRefreshing, homeSearchQuery,
                   debouncedSearchQuery, activeTab, isSidebarOpen,
                   pureVars, hookVars, mapVars>>

\* Lines 64-66; onBack of the detail view, line 114.
handleBackFromDetail ==
    /\ DetailShown
    /\ showDetail' = FALSE
    /\ UNCHANGED <<locationStatus, homeIsRefreshing, homeSearchQuery,
                   debouncedSearchQuery, selectedWaterBody, activeTab,
                   isSidebarOpen, pureVars, hookVars, mapVars>>

\* Lines 68-70.
toggleSidebar ==
    /\ ~DetailShown
    /\ isSidebarOpen' = ~isSidebarOpen
    /\ UNCHANGED <<locationStatus, homeIsRefreshing, homeSearchQuery,
                   debouncedSearchQuery, selectedWaterBody, activeTab,
                   showDetail, pureVars, hookVars, mapVars>>

\* onValueChange of the tabs, lines 230-233 and 255-258.
setActiveTab(tab) ==
    /\ ~DetailShown
    /\ tab # activeTab
    /\ activeTab' = tab
    /\ UNCHANGED <<locationStatus, homeIsRefreshing, homeSearchQuery,
                   debouncedSearchQuery, selectedWaterBody, showDetail,
                   isSidebarOpen, pureVars, hookVars, mapVars>>

InitHome ==
    /\ HomeFirstRender
    /\ MapIdle
    /\ SearchIdle
    /\ TransformIdle
    /\ FetchIdle
    /\ HookIdle

NextHome ==
    \/ LocationTimer
    \/ HomeRefresh
    \/ HomeRefreshTimer
    \/ \E waterBody \in HomeWaterBodies : handleSelectWaterBody(waterBody)
    \/ \E q \in HomeQueries : handleSearchChange(q)
    \/ DebouncedCallback
    \/ handleBackFromDetail
    \/ toggleSidebar
    \/ \E tab \in HomeTabs : setActiveTab(tab)

SpecHome == InitHome /\ [][NextHome]_vars

(***************************************************************************)
(* MapView (src/src/components/SearchBar.tsx): the first variant, lines    *)
(* 34-246, draws pins over a placeholder; the Leaflet variant, lines       *)
(* 248-634, has its own fetchWaterBodies and a Leaflet map.  A Station is  *)
(* [uuid, name, latitude, longitude, water, status, currentLevel,          *)
(* distance] with an optional name; coordinates are in 1e-4 degrees,       *)
(* levels and distances in tenths.  userLocation stays null.               *)
(***************************************************************************)
fallbackWaterBodies ==
    << [uuid |-> "1", name |-> Some(<<"L","a","k","e"," ","G","e","n","e","v","a">>),
        latitude |-> 462044, longitude |-> 61432, water |-> "Rhone",
        status |-> "normal", currentLevel |-> 52, distance |-> 105],
       [uuid |-> "2", name |-> Some(<<"L","a","k","e"," ","Z","u","r","i","c","h">>),
        latitude |-> 473769, longitude |-> 85417, water |-> "Limmat",
        status |-> "high", currentLevel |-> 48, distance |-> 152],
       [uuid |-> "3",
        name |-> Some(<<"L","a","k","e"," ","C","o","n","s","t","a","n","c","e">>),
        latitude |-> 476593, longitude |-> 91750, water |-> "Rhine",
        status |-> "low", currentLevel |-> 39, distance |-> 207] >>

\* What the stations endpoint can answer.  StationZa has a short name and
\* a water, StationBare neither a short name nor a name nor a water.
StationZa ==
    [uuid |-> "u1", shortname |-> Some(<<"Z", "a">>), name |-> Some(<<"b">>),
     latitude |-> 500000, longitude |-> 80000, water |-> Some("Rhein")]

StationBare ==
    [uuid |-> "u2", shortname |-> None, name |-> None,
     latitude |-> 510000, longitude |-> 80000, water |-> None]

MapBodies ==
    {None, Some(<<>>), Some(<<StationZa>>), Some(<<StationBare>>),
     Some(<<StationZa, StationZa>>)}

MapAnswers ==
    {TransportFailure} \cup [delivered : {TRUE}, status : {200, 500}, body : MapBodies]

\* 5.0 + Math.random() * 2 and Math.random() * 20, in tenths: two draws.
MockReadings == {[level |-> 50, distance |-> 0], [level |-> 69, distance |-> 199]}

\* a || b on optional strings: the empty string is falsy.
OrElse(a, b) == IF a # None /\ a[1] # <<>> THEN a ELSE b

\* The mapping of lines 315-324 for the station at index (from 0).
MapStation315(station, index, reading) ==
    [uuid |-> station.uuid,
     name |-> OrElse(station.shortname, station.name),
     latitude |-> station.latitude,
     longitude |-> station.longitude,
     water |-> IF station.water = None THEN "Unknown" ELSE station.water[1],
     status |-> <<"normal", "high", "low">>[(index % 3) + 1],
     currentLevel |-> reading.level,
     distance |-> reading.distance]

RequestFailed(response) == ~ResponseOk(response)

\* A variant that rethrows what it caught, as fetchWaterBodies of lib/api does.
LocalFetch_Rethrows(response) ==
    IF RequestFailed(response) \/ response.body = None
    THEN {[ok |-> FALSE, data |-> <<>>]}
    ELSE LET data == response.body[1]
         IN  {[ok |-> TRUE,
               data |-> [i \in 1..Len(data) |->
                            MapStation315(data[i], i - 1, draws[i])]] :
                 draws \in [1..Len(data) -> MockReadings]}

\* The local fetchWaterBodies, lines 306-329: the ways its promise can
\* settle on a response.  Whatever is thrown inside the try is caught and
\* answered with the fallback stations.
LocalFetch(response) ==
    IF RequestFailed(response) \/ response.body = None
    THEN {[ok |-> TRUE, data |-> fallbackWaterBodies]}
    ELSE LET data == response.body[1]
         IN  {[ok |-> TRUE,
               data |-> [i \in 1..Len(data) |->
                            MapStation315(data[i], i - 1, draws[i])]] :
                 draws \in [1..Len(data) -> MockReadings]}

\* wb.name.toLowerCase() throws a TypeError on a station without a name.
MapFilterThrows(data) == \E i \in DOMAIN data : data[i].name = None

\* The filter of lines 434-436.
MapFilter(data, query) ==
    SelectSeq(data, LAMBDA wb :
        includes(toLowerCase(wb.name[1]), toLowerCase(query)))

MapQueries == {<<>>, <<"Z">>}

MapPending == {a \in DOMAIN mvLoads : mvLoads[a].state = "pending"}

MathMin(a, b) == IF a < b THEN a ELSE b

MathMax(a, b) == IF a > b THEN a ELSE b

\* The zoom levels of the Leaflet map: no minZoom is given to L.map and the
\* tile layer gives maxZoom 19 (lines 381-393); scrollWheelZoom is on.
LeafletZooms == 0..19

otherVars == <<pureVars, hookVars, homeVars>>

\* loadWaterBodies up to its await: lines 66-71 and 428-433.  The click
\* handler of the markers this load will draw closes over the mapZoom of
\* this render and flies to Math.max(mapZoom, 12): lines 463 and 499-508.
MapLoadStart(q) ==
    /\ Len(mvLoads) < MaxMapLoads
    /\ mvIsLoading' = TRUE
    /\ mvError' = None
    /\ mvLoads' =
           Append(mvLoads, [query |-> q, flyZoom |-> MathMax(mapZoom, 12),
                       state |-> "pending"])

\* The effects of the first render: lines 64-81; lines 353-424 append the
\* Leaflet script and lines 427-478 start the first load.
MapMount ==
    /\ ~mvMounted
    /\ mvMounted' = TRUE
    /\ leafletScript' = (IF mvVariant = "leaflet" THEN "loading" ELSE "idle")
    /\ MapLoadStart(mvSearchQuery)
    /\ UNCHANGED <<mvVariant, mvSearchQuery, mvWaterBodies, mvSelectedWaterBody,
                   mapZoom, mapRef, markers, mvLastSettled, otherVars>>

\* leafletScript.onload, lines 374-405: the map is created when the container
\* is rendered, which it is only while isLoading is false (lines 571-587),
\* with the mapZoom of the first render.
ScriptLoads ==
    /\ leafletScript = "loading"
    /\ leafletScript' = "loaded"
    /\ mapRef' = (IF ~mvIsLoading /\ mapRef = None THEN Some(6) ELSE mapRef)
    /\ UNCHANGED <<mvVariant, mvSearchQuery, mvWaterBodies, mvSelectedWaterBody,
                   mapZoom, mvIsLoading, mvError, mvMounted, markers, mvLoads,
                   mvLastSettled, otherVars>>

\* leafletScript.onerror, lines 407-409.
ScriptFails ==
    /\ leafletScript = "loading"
    /\ leafletScript' = "failed"
    /\ mvError' = Some("Failed to load map resources. Please try again.")
    /\ UNCHANGED <<mvVariant, mvSearchQuery, mvWaterBodies, mvSelectedWaterBody,
                   mapZoom, mvIsLoading, mvMounted, mapRef, markers, mvLoads,
                   mvLastSettled, otherVars>>

\* The Leaflet variant is rendered with another searchQuery: the effect of
\* lines 427-478 runs again.
MapSetQuery(q) ==
    /\ mvMounted
    /\ mvVariant = "leaflet"
    /\ q # mvSearchQuery
    /\ mvSearchQuery' = q
    /\ MapLoadStart(q)
    /\ UNCHANGED <<mvVariant, mvWaterBodies, mvSelectedWaterBody, mapZoom,
                   mvMounted, leafletScript, mapRef, markers, mvLastSettled,
                   otherVars>>

\* The fetch of load a of the Leaflet variant settles: lines 433-474.
MapLoadSettles(a) ==
    /\ mvVariant = "leaflet"
    /\ a \in MapPending
    /\ \E answer \in MapAnswers : \E outcome \in LocalFetch(answer) :
           /\ IF outcome.ok /\ ~MapFilterThrows(outcome.data)
              THEN LET filteredData == MapFilter(outcome.data, mvLoads[a].query)
                   IN  /\ mvWaterBodies' = filteredData
                       /\ markers' =
                              IF mapRef # None
                              THEN Some([stations |-> filteredData,
                                         flyZoom |-> mvLoads[a].flyZoom])
                              ELSE markers
                       /\ mvError' = mvError
              ELSE /\ mvError' = Some("Failed to load stations. Using fallback data.")
                   /\ UNCHANGED <<mvWaterBodies, markers>>
           /\ mvLastSettled' =
                  Some([load |-> a, requestFailed |-> RequestFailed(answer)])
    /\ mvIsLoading' = FALSE
    /\ mvLoads' = [mvLoads EXCEPT ![a].state = "settled"]
    /\ UNCHANGED <<mvVariant, mvSearchQuery, mvSelectedWaterBody, mapZoom,
                   mvMounted, leafletScript, mapRef, otherVars>>

\* The fetch of the load of the first variant settles: lines 70-78, with
\* fetchWaterBodies of lib/api.
PinsLoadSettles(a) ==
    /\ mvVariant = "pins"
    /\ a \in MapPending
    /\ \E answer \in HookAnswers :
           LET result == fetchWaterBodies(answer)
           IN  /\ IF result.ok
                  THEN mvWaterBodies' = result.data /\ mvError' = mvError
                  ELSE mvError' = Some(ErrorMessage) /\ UNCHANGED mvWaterBodies
               /\ mvLastSettled' =
                      Some([load |-> a, requestFailed |-> RequestFailed(answer)])
    /\ mvIsLoading' = FALSE
    /\ mvLoads' = [mvLoads EXCEPT ![a].state = "settled"]
    /\ UNCHANGED <<mvVariant, mvSearchQuery, mvSelectedWaterBody, mapZoom,
                   mvMounted, leafletScript, mapRef, markers, otherVars>>

\* handlePinClick of the first variant, lines 95-97, from a pin (line 185).
PinClick(waterBody) ==
    /\ mvVariant = "pins"
    /\ ~mvIsLoading
    /\ \E i \in DOMAIN mvWaterBodies : mvWaterBodies[i] = waterBody
    /\ mvSelectedWaterBody' = Some(waterBody)
    /\ UNCHANGED <<mvVariant, mvSearchQuery, mvWaterBodies, mapZoom, mvIsLoading,
                   mvError, mvMounted, leafletScript, mapRef, markers, mvLoads,
                   mvLastSettled, otherVars>>

MarkerStations ==
    IF markers = None THEN {}
    ELSE {markers[1].stations[i] : i \in DOMAIN markers[1].stations}

\* handlePinClick of the Leaflet variant, lines 499-508, from a marker (line
\* 463): the map flies to Math.max(mapZoom, 12) and its zoomend callback
\* (lines 396-398) copies the zoom into mapZoom.
MarkerClick(waterBody) ==
    /\ mvVariant = "leaflet"
    /\ mapRef # None
    /\ waterBody \in MarkerStations
    /\ mvSelectedWaterBody' = Some(waterBody)
    /\ mapRef' = Some(markers[1].flyZoom)
    /\ mapZoom' = markers[1].flyZoom
    /\ UNCHANGED <<mvVariant, mvSearchQuery, mvWaterBodies, mvIsLoading,
                   mvError, mvMounted, leafletScript, markers, mvLoads,
                   mvLastSettled, otherVars>>

\* Zoom In, lines 110-117 and 531-538, and the effect of lines 481-485.
ZoomIn ==
    /\ mvMounted
    /\ mapZoom' = MathMin(mapZoom + 1, 18)
    /\ mapRef' = (IF mapRef # None /\ mapZoom' # mapZoom THEN Some(mapZoom') ELSE mapRef)
    /\ UNCHANGED <<mvVariant, mvSearchQuery, mvWaterBodies, mvSelectedWaterBody,
                   mvIsLoading, mvError, mvMounted, leafletScript, markers,
                   mvLoads, mvLastSettled, otherVars>>

\* Zoom Out, lines 118-125 and 539-546, and the effect of lines 481-485.
ZoomOut ==
    /\ mvMounted
    /\ mapZoom' = MathMax(mapZoom - 1, 5)
    /\ mapRef' = (IF mapRef # None /\ mapZoom' # mapZoom THEN Some(mapZoom') ELSE mapRef)
    /\ UNCHANGED <<mvVariant, mvSearchQuery, mvWaterBodies, mvSelectedWaterBody,
                   mvIsLoading, mvError, mvMounted, leafletScript, markers,
                   mvLoads, mvLastSettled, otherVars>>

\* The user turns the wheel over the map: the map zooms by one level within
\* its limits and the zoomend callback of lines 396-398 runs.
WheelZoom(delta) ==
    /\ mapRef # None
    /\ mapRef[1] + delta \in LeafletZooms
    /\ mapRef' = Some(mapRef[1] + delta)
    /\ mapZoom' = mapRef[1] + delta
    /\ UNCHANGED <<mvVariant, mvSearchQuery, mvWaterBodies, mvSelectedWaterBody,
                   mvIsLoading, mvError, mvMounted, leafletScript, markers,
                   mvLoads, mvLastSettled, otherVars>>

InitMap ==
    /\ mvVariant \in {"pins", "leaflet"}
    /\ mvSearchQuery \in (IF mvVariant = "leaflet" THEN MapQueries ELSE {<<>>})
    /\ MapFirstRender
    /\ HomeFirstRender
    /\ SearchIdle
    /\ TransformIdle
    /\ FetchIdle
    /\ HookIdle

NextMap ==
    \/ MapMount
    \/ ScriptLoads
    \/ ScriptFails
    \/ \E q \in MapQueries : MapSetQuery(q)
    \/ \E a \in DOMAIN mvLoads : MapLoadSettles(a)
    \/ \E a \in DOMAIN mvLoads : PinsLoadSettles(a)
    \/ \E i \in DOMAIN mvWaterBodies : PinClick(mvWaterBodies[i])
    \/ \E waterBody \in MarkerStations : MarkerClick(waterBody)
    \/ ZoomIn
    \/ ZoomOut
    \/ \E delta \in {-1, 1} : WheelZoom(delta)

SpecMap == InitMap /\ [][NextMap]_vars

\* MapView with the zoom controls and the wheel left alone.
NextMapLoad ==
    \/ MapMount
    \/ ScriptLoads
    \/ ScriptFails
    \/ \E q \in MapQueries : MapSetQuery(q)
    \/ \E a \in DOMAIN mvLoads : MapLoadSettles(a)
    \/ \E a \in DOMAIN mvLoads : PinsLoadSettles(a)
    \/ \E i \in DOMAIN mvWaterBodies : PinClick(mvWaterBodies[i])
    \/ \E waterBody \in MarkerStations : MarkerClick(waterBody)

SpecMapLoad == InitMap /\ [][NextMapLoad]_vars

NextSearch == Search

NextTransform == Transform

NextFetch == Fetch

Next ==
    \/ Mount
    \/ HandleRefresh
    \/ \E a \in DOMAIN attempts : FetchResolves(a)
    \/ \E a \in DOMAIN attempts : FetchRejects(a)
    \/ \E q \in HookQueries : SetQuery(q)
    \/ RunFilterEffect

SpecSearch == InitSearch /\ [][NextSearch]_vars

SpecTransform == InitTransform /\ [][NextTransform]_vars

SpecFetch == InitFetch /\ [][NextFetch]_vars

Spec == Init /\ [][Next]_vars

\* React runs the effects of every render, and every issued fetch settles:
\* the await of line 19 resumes once the promise of fetchWaterBodies settles,
\* however often the component renders in between.
Fairness ==
    /\ WF_vars(Mount)
    /\ WF_vars(RunFilterEffect)
    /\ \A a \in 1..MaxAttempts : SF_vars(FetchResolves(a) \/ FetchRejects(a))

SpecLive == Init /\ [][Next]_vars /\ Fairness

\* The Refresh button of WaterBodyList (src/src/components/WaterBodyList.tsx,
\* lines 26-37): onClick is handleRefresh and the button is disabled while
\* isRefreshing.
RefreshButton ==
    /\ ~isRefreshing
    /\ HandleRefresh

\* The hook with handleRefresh reachable through the Refresh button only.
NextButton ==
    \/ Mount
    \/ RefreshButton
    \/ \E a \in DOMAIN attempts : FetchResolves(a)
    \/ \E a \in DOMAIN attempts : FetchRejects(a)
    \/ \E q \in HookQueries : SetQuery(q)
    \/ RunFilterEffect

SpecButton == Init /\ [][NextButton]_vars

\* The Try Again button of WaterBodyList (lines 47, 58 and 65-71): rendered
\* when isLoading is false and filteredWaterBodies is empty, never disabled.
TryAgainButton ==
    /\ ~isLoading
    /\ Len(filteredWaterBodies) = 0
    /\ HandleRefresh

\* WaterBodyList: the hook with handleRefresh reachable through its two
\* buttons.
NextList ==
    \/ Mount
    \/ RefreshButton
    \/ TryAgainButton
    \/ \E a \in DOMAIN attempts : FetchResolves(a)
    \/ \E a \in DOMAIN attempts : FetchRejects(a)
    \/ \E q \in HookQueries : SetQuery(q)
    \/ RunFilterEffect

SpecList == Init /\ [][NextList]_vars

(***************************************************************************)
(* Properties of searchWaterBodies.                                        *)
(***************************************************************************)
Range(f) == {f[i] : i \in DOMAIN f}

\* t occurs in s: s = u \o t \o v for some u and v.
IsSubstring(t, s) ==
    \E i \in 0..Len(s) : \E j \in i..Len(s) : SubSeq(s, i + 1, j) = t

NameMatches(waterBody, q) ==
    IsSubstring(toLowerCase(q), toLowerCase(waterBody.name))

NonEmptyQuery == srchQuery # None /\ Len(srchQuery[1]) > 0

\* C1: for a non-empty query the result is a subsequence of the collection
\* (same elements, same relative order, nothing added) holding exactly the
\* elements whose lower-cased name contains the lower-cased query.
C1_SearchIsMatchingSubsequence ==
    (srchPc = "done" /\ NonEmptyQuery) =>
        \E f \in [1..Len(srchResult) -> 1..Len(srchBodies)] :
            /\ \A i, j \in DOMAIN f : i < j => f[i] < f[j]
            /\ \A i \in DOMAIN f : srchResult[i] = srchBodies[f[i]]
            /\ \A k \in 1..Len(srchBodies) :
                   (k \in Range(f)) <=> NameMatches(srchBodies[k], srchQuery[1])

\* A search that keeps the second of two bodies only, matched across case.
C1_Witness ==
    /\ srchPc = "done"
    /\ NonEmptyQuery
    /\ Len(srchBodies) = 2
    /\ srchResult = <<srchBodies[2]>>
    /\ ~IsSubstring(srchQuery[1], srchBodies[2].name)

\* C2: an empty or absent query returns exactly the collection.
C2_NoQueryReturnsCollection ==
    (srchPc = "done" /\ ~NonEmptyQuery) => srchResult = srchBodies

C2_Witness ==
    /\ srchPc = "done"
    /\ srchQuery = None
    /\ Len(srchBodies) = 2
    /\ srchResult = srchBodies

(***************************************************************************)
(* Properties of transformApiData.                                         *)
(***************************************************************************)
LacksTimeseries(station) ==
    station.timeseries = None \/ station.timeseries = Some(<<>>)

FirstHasMeasurement(station) ==
    /\ ~LacksTimeseries(station)
    /\ station.timeseries[1][1].currentMeasurement # None

LaterHasMeasurement(station) ==
    /\ ~LacksTimeseries(station)
    /\ \E k \in 2..Len(station.timeseries[1]) :
           station.timeseries[1][k].currentMeasurement # None

OnlyFirstEntry(station) ==
    [station EXCEPT !.timeseries = Some(<<station.timeseries[1][1]>>)]

\* The raw stations a record is due for, and the one the k-th record is due for.
Kept == {i \in DOMAIN xfData : FirstHasMeasurement(xfData[i])}

Origin(k) == CHOOSE i \in Kept : Cardinality({j \in Kept : j < i}) = k - 1

RawEntry(k) == xfData[Origin(k)].timeseries[1][1]

RawMeasurement(k) == RawEntry(k).currentMeasurement[1]

OneRecordPerKept == Len(xfResult) = Cardinality(Kept)

\* C3: no record is emitted for a station whose timeseries list is absent or
\* empty: the call returns, such a station alone yields nothing, and the result
\* is the one obtained with these stations removed from the input.
C3_NoTimeseriesNoRecord ==
    (xfPc # "idle") =>
        /\ xfPc = "done"
        /\ \A i \in DOMAIN xfData :
               LacksTimeseries(xfData[i]) => transformApiData(<<xfData[i]>>) = <<>>
        /\ xfResult =
               transformApiData(SelectSeq(xfData, LAMBDA s : ~LacksTimeseries(s)))
        /\ Len(xfResult) <=
               Cardinality({i \in DOMAIN xfData : ~LacksTimeseries(xfData[i])})

C3_Witness ==
    /\ xfPc = "done"
    /\ \E i, j \in DOMAIN xfData :
           /\ xfData[i].timeseries = None
           /\ FirstHasMeasurement(xfData[j])
    /\ Len(xfResult) = 1

\* C4: only the first time-series entry is consulted: a station is emitted
\* exactly when its first entry has a current measurement, and what it yields
\* is what it yields with its later entries removed.
C4_OnlyFirstEntryConsulted ==
    (xfPc = "done") =>
        /\ OneRecordPerKept
        /\ \A i \in DOMAIN xfData :
               ~LacksTimeseries(xfData[i]) =>
                   LET alone == transformApiData(<<xfData[i]>>)
                   IN  /\ alone = transformApiData(<<OnlyFirstEntry(xfData[i])>>)
                       /\ Len(alone) = IF FirstHasMeasurement(xfData[i]) THEN 1 ELSE 0

C4_Witness ==
    /\ xfPc = "done"
    /\ \E i, j \in DOMAIN xfData :
           /\ ~LacksTimeseries(xfData[i])
           /\ ~FirstHasMeasurement(xfData[i])
           /\ LaterHasMeasurement(xfData[i])
           /\ FirstHasMeasurement(xfData[j])
           /\ Len(xfData[j].timeseries[1]) > 1
           /\ ~LaterHasMeasurement(xfData[j])
           /\ xfResult = transformApiData(<<xfData[j]>>)
    /\ Len(xfResult) = 1

\* C5: every record of the output has a defined currentLevel.
C5_CurrentLevelDefined ==
    (xfPc = "done") =>
        \A k \in DOMAIN xfResult : xfResult[k].currentLevel.kind = "number"

\* C6: status is high when either flag is "above", otherwise low when either
\* is "below", otherwise normal; one flag "above" and the other "below", in
\* either assignment, gives high.
C6_StatusFromFlags ==
    (xfPc = "done") =>
        /\ OneRecordPerKept
        /\ \A k \in DOMAIN xfResult :
               LET flags == {RawMeasurement(k).stateMnwMhw, RawMeasurement(k).stateNswHsw}
               IN  /\ (Some("above") \in flags) => xfResult[k].status = "high"
                   /\ (Some("above") \notin flags /\ Some("below") \in flags)
                          => xfResult[k].status = "low"
                   /\ (Some("above") \notin flags /\ Some("below") \notin flags)
                          => xfResult[k].status = "normal"

C6_Witness ==
    /\ xfPc = "done"
    /\ Len(xfResult) = 1
    /\ RawMeasurement(1).stateMnwMhw = Some("below")
    /\ RawMeasurement(1).stateNswHsw = Some("above")
    /\ xfResult[1].status = "high"

\* C7: trend is rising when stateNswHsw is "rising", falling when it is
\* "falling" and stable for every other value or an absent flag, whatever
\* stateMnwMhw holds.
C7_TrendFromNswHsw ==
    (xfPc = "done") =>
        /\ OneRecordPerKept
        /\ \A k \in DOMAIN xfResult :
               xfResult[k].trend =
                   CASE RawMeasurement(k).stateNswHsw = Some("rising")  -> "rising"
                     [] RawMeasurement(k).stateNswHsw = Some("falling") -> "falling"
                     [] OTHER -> "stable"

C7_Witness ==
    /\ xfPc = "done"
    /\ Len(xfResult) = 1
    /\ RawMeasurement(1).stateNswHsw = None
    /\ RawMeasurement(1).stateMnwMhw = Some("rising")
    /\ xfResult[1].trend = "stable"

\* currentLevel multiplied by 0.8, as the claim states it (10 gives 8); the
\* product of an undefined level is NaN.
EightTenths(level) ==
    IF level.kind = "number" THEN Num(4 * (level.val \div 5)) ELSE NaN

\* C8: normalLevel is the gauge-zero value of the first entry when that value
\* is present and non-zero, and currentLevel multiplied by 0.8 when gauge zero
\* or its value is absent or the value is 0.
C8_NormalLevel ==
    (xfPc = "done") =>
        /\ OneRecordPerKept
        /\ \A k \in DOMAIN xfResult :
               LET gaugeZero == RawEntry(k).gaugeZero
                   present == gaugeZero # None /\ gaugeZero[1].value.kind = "number"
               IN  IF present /\ gaugeZero[1].value.val # 0
                   THEN xfResult[k].normalLevel = gaugeZero[1].value
                   ELSE xfResult[k].normalLevel = EightTenths(xfResult[k].currentLevel)

C8_Witness ==
    /\ xfPc = "done"
    /\ Len(xfResult) = 1
    /\ RawEntry(1).gaugeZero = Some([value |-> Num(0)])
    /\ xfResult[1].currentLevel = Num(10)
    /\ xfResult[1].normalLevel = Num(8)

\* C9: name is the raw longname when present and non-empty and the raw
\* shortname otherwise; id, lastUpdated, latitude and longitude are the raw
\* uuid, measurement timestamp and station coordinates.
C9_NameAndVerbatimFields ==
    (xfPc = "done") =>
        /\ OneRecordPerKept
        /\ \A k \in DOMAIN xfResult :
               LET station == xfData[Origin(k)]
               IN  /\ (station.longname \notin {None, Some(<<>>)})
                          => xfResult[k].name = station.longname[1]
                   /\ (station.longname \in {None, Some(<<>>)})
                          => xfResult[k].name = station.shortname
                   /\ xfResult[k].id = station.uuid
                   /\ xfResult[k].lastUpdated = RawMeasurement(k).timestamp
                   /\ xfResult[k].coordinates.latitude = station.latitude
                   /\ xfResult[k].coordinates.longitude = station.longitude

C9_Witness ==
    /\ xfPc = "done"
    /\ Len(xfResult) = 1
    /\ xfData[1].longname = Some(<<>>)
    /\ xfResult[1].name = xfData[1].shortname
    /\ xfResult[1].lastUpdated = "t2"
    /\ xfResult[1].coordinates.latitude = 51

\* C10: no two records of the output have the same id.
C10_IdsUnique ==
    (xfPc = "done") =>
        \A i, j \in DOMAIN xfResult : i # j => xfResult[i].id # xfResult[j].id

(***************************************************************************)
(* Properties of fetchWaterBodies.                                         *)
(***************************************************************************)
Is2xx(response) ==
    response.delivered /\ response.status \in 200..299

FailedSettle ==
    lastSettled' # lastSettled /\ ~lastSettled'[1].result.ok

\* This step starts a load attempt.
AttemptStarts == Len(attempts') > Len(attempts)

AllSettled == mounted /\ Pending = {}

C13_OneErrorMessage ==
    /\ error \in {None, Some("Failed to load water bodies. Please try again.")}
    /\ (Pending = {} /\ lastSettled # None /\ ~lastSettled[1].result.ok)
           => error # None

C13_Witness ==
    /\ Len(attempts) = 2
    /\ Pending = {}
    /\ lastSettled # None
    /\ lastSettled[1].result.message = "API request failed with status 500"
    /\ error = Some("Failed to load water bodies. Please try again.")

\* C14: every load attempt starts by setting error to null in the step that
\* issues its fetch, and error turns non-null only in a step that settles an
\* attempt, so that it stays null while the new attempt alone is in flight.
C14_ErrorClearedAtStart ==
    [][/\ AttemptStarts => (error' = None /\ requestsIssued' = requestsIssued + 1)
       /\ (error' # None /\ error' # error) =>
              Cardinality(Pending') < Cardinality(Pending)]_vars

\* A refresh in flight alone, after a failed initial load.
C14_Witness ==
    /\ Len(attempts) = 2
    /\ attempts[1].state = "rejected"
    /\ Pending = {2}
    /\ error = None

\* C15: when all attempts have succeeded and settled, waterBodies is the
\* data of the attempt that resolved last, whichever started first.
C15_LastResolvedWins ==
    (AllSettled /\ \A a \in DOMAIN attempts : attempts[a].state = "resolved")
        => waterBodies = lastSettled[1].result.data

\* Two overlapping attempts; the one started first resolved last.
C15_Witness ==
    /\ Len(attempts) = 2
    /\ \A a \in DOMAIN attempts : attempts[a].state = "resolved"
    /\ lastSettled[1].attempt = 1
    /\ Len(lastSettled[1].result.data) > 0
    /\ waterBodies = lastSettled[1].result.data

\* C16: waterBodies changes only in the step in which a fetch resolves, and
\* then to the whole result of that fetch.
C16_ReplacedWholesale ==
    [][waterBodies' # waterBodies =>
          /\ lastSettled' # lastSettled
          /\ lastSettled'[1].result.ok
          /\ waterBodies' = lastSettled'[1].result.data]_vars

\* The loaded collection is readable while a refresh is in flight.
C16_Witness ==
    /\ Len(waterBodies) > 0
    /\ Pending = {2}
    /\ lastSettled # None
    /\ waterBodies = lastSettled[1].result.data

\* C17: the network requests issued are as many as the load requests made:
\* one per load request, none for a retry, none for a change of the query.
C17_OneRequestPerLoad ==
    requestsIssued = Len(attempts)

\* A failed initial load followed by a change of the query.
C17_Witness ==
    /\ Len(attempts) = 1
    /\ attempts[1].state = "rejected"
    /\ attempts[1].query # searchQuery
    /\ ~effectPending
    /\ requestsIssued = 1

\* The records of each station transformed alone, in the order of the input.
RECURSIVE EachAlone(_)
EachAlone(data) ==
    IF data = <<>> THEN <<>>
    ELSE transformApiData(<<Head(data)>>) \o EachAlone(Tail(data))

\* C18: transformApiData of a list is the in-order concatenation of
\* transformApiData of each station alone; an incomplete station costs the
\* others nothing.
C18_StationsIndependent ==
    (xfPc = "done") => xfResult = EachAlone(xfData)

\* A complete station after one without a current measurement: one record.
C18_Witness ==
    /\ xfPc = "done"
    /\ Len(xfData) = 2
    /\ ~LacksTimeseries(xfData[1])
    /\ ~FirstHasMeasurement(xfData[1])
    /\ FirstHasMeasurement(xfData[2])
    /\ Len(xfResult) = 1
    /\ xfResult[1].id = xfData[2].uuid

QueryStep ==
    searchQuery' # searchQuery \/ (effectPending /\ ~effectPending')

C21_LoadingWhileInFlight ==
    (Pending # {}) => isLoading

\* C22: when no fetch is in flight and the attempt that settled last
\* succeeded, error is null, also when an overlapping attempt failed before.
C22_ErrorNullAfterLastSuccess ==
    (AllSettled /\ lastSettled # None /\ lastSettled[1].result.ok)
        => error = None

\* C23: with handleRefresh invoked only while isRefreshing is false, at most
\* one fetch started by the hook is in flight, the initial load included.
C23_AtMostOneInFlight ==
    Cardinality(Pending) <= 1

\* The refreshes whose fetch has not settled.
PendingRefreshes == {a \in Pending : attempts[a].kind = "refresh"}

\* C24: isRefreshing is false during the initial load, true from the call of
\* handleRefresh until the fetch of that refresh settles, and false again
\* after it settled: isRefreshing is true exactly while a refresh is pending.
C24_RefreshingLifecycle ==
    isRefreshing <=> (PendingRefreshes # {})

\* C25: every fetch settling, the hook ends, after the load requests made,
\* with isLoading false and isRefreshing false for good, after failures as
\* well as after successes.
C25_EventuallyIdle ==
    <>[](~isLoading /\ ~isRefreshing)

\* Three attempts, a refresh among the failed ones, everything settled and
\* both flags down.
C25_Witness ==
    /\ Len(attempts) = MaxAttempts
    /\ Pending = {}
    /\ \E a \in DOMAIN attempts :
           attempts[a].kind = "refresh" /\ attempts[a].state = "rejected"
    /\ lastSettled # None
    /\ ~lastSettled[1].result.ok
    /\ ~isLoading
    /\ ~isRefreshing

(***************************************************************************)
(* Properties of Home.                                                     *)
(***************************************************************************)
\* C26: the detail view is shown only with a selected station; the step that
\* shows the detail sets the selection and closes the sidebar; the step that
\* hides it leaves selectedWaterBody, searchQuery and activeTab unchanged.
C26_DetailHasSelection ==
    /\ [](showDetail => selectedWaterBody # None)
    /\ [][(~showDetail /\ showDetail') =>
              /\ selectedWaterBody' \in {Some(w) : w \in HomeWaterBodies}
              /\ ~isSidebarOpen']_vars
    /\ [][(showDetail /\ ~showDetail') =>
              /\ selectedWaterBody' = selectedWaterBody
              /\ homeSearchQuery' = homeSearchQuery
              /\ activeTab' = activeTab]_vars

\* Back from the detail of a station picked on the map tab under a query.
C26_Witness ==
    /\ ~showDetail
    /\ selectedWaterBody # None
    /\ activeTab = "map"
    /\ homeSearchQuery # <<>>
    /\ ~isSidebarOpen

(***************************************************************************)
(* Properties of MapView.                                                  *)
(***************************************************************************)
\* C27: mapZoom stays within 5..18 in every reachable state of MapView,
\* whichever event updates it.
C27_ZoomWithinRange ==
    mapZoom \in 5..18

MapAllSettled == mvMounted /\ MapPending = {}

\* This step settles a load of the Leaflet variant whose request failed.
FailedRequestSettles ==
    /\ mvVariant = "leaflet"
    /\ mvLastSettled' # mvLastSettled
    /\ mvLastSettled'[1].requestFailed

\* C28: in the Leaflet variant a failed station request does not fail the
\* load: the step that settles it shows the three fallback stations filtered
\* by the query of that load and sets no error, the local fetchWaterBodies
\* answers a failed request with the fallback stations and never throws,
\* and isLoading is false once every load has settled.
C28_FailedRequestFallsBack ==
    /\ [][FailedRequestSettles =>
              /\ mvWaterBodies' =
                     MapFilter(fallbackWaterBodies,
                               mvLoads[mvLastSettled'[1].load].query)
              /\ mvError' = mvError
              /\ mvIsLoading' = FALSE]_vars
    /\ [](\A answer \in MapAnswers :
              /\ \A outcome \in LocalFetch(answer) : outcome.ok
              /\ RequestFailed(answer) =>
                     LocalFetch(answer) =
                         {[ok |-> TRUE, data |-> fallbackWaterBodies]})
    /\ []((mvVariant = "leaflet" /\ MapAllSettled) => ~mvIsLoading)

\* A load under the query "Z" whose request failed: Lake Zurich alone is shown.
C28_Witness ==
    /\ mvVariant = "leaflet"
    /\ MapAllSettled
    /\ mvLastSettled # None
    /\ mvLastSettled[1].requestFailed
    /\ mvLoads[mvLastSettled[1].load].query = <<"Z">>
    /\ Len(mvWaterBodies) = 1
    /\ mvWaterBodies[1].uuid = "2"
    /\ mvError = None
    /\ ~mvIsLoading

(***************************************************************************)
(* Status against trend in transformApiData.                               *)
(***************************************************************************)
\* C29: for a record whose trend is rising or falling the NSW/HSW flag adds
\* nothing to status: status is high exactly when stateMnwMhw is "above",
\* low exactly when it is "below", and normal otherwise.
C29_StatusFromMnwMhwWhenTrending ==
    (xfPc = "done") =>
        /\ OneRecordPerKept
        /\ \A k \in DOMAIN xfResult :
               (xfResult[k].trend \in {"rising", "falling"}) =>
                   LET mnwMhw == RawMeasurement(k).stateMnwMhw
                   IN  /\ (xfResult[k].status = "high") <=> (mnwMhw = Some("above"))
                       /\ (xfResult[k].status = "low") <=> (mnwMhw = Some("below"))
                       /\ (xfResult[k].status = "normal")
                              <=> (mnwMhw \notin {Some("above"), Some("below")})

\* A falling station below its mean low water: low.
C29_Witness ==
    /\ xfPc = "done"
    /\ Len(xfResult) = 1
    /\ RawMeasurement(1).stateNswHsw = Some("falling")
    /\ RawMeasurement(1).stateMnwMhw = Some("below")
    /\ xfResult[1].trend = "falling"
    /\ xfResult[1].status = "low"

====
